---- MODULE Spec2Model ----
(***************************************************************************)
(* A model of fargo (src/fargo.py): the decision layer of one invocation   *)
(* of the command-line tool.  The state is the part of the filesystem the  *)
(* tool reads and writes (the chain of directories from the working        *)
(* directory up to the filesystem root with their CMakeLists.txt, the      *)
(* modification times of the project's files, the build directories and    *)
(* the built binaries) and the position of the running command handler.    *)
(***************************************************************************)
EXTENDS Integers, Sequences, FiniteSets, TLC

(* ------------------------------ bounds --------------------------------- *)

\* Depth of the working directory below the filesystem root (depth 0 is "/").
MaxDepth == 2

\* Modification times are 0..MaxTime.
MaxTime == 1

\* At most this many project files have a modification time other than 0.
MaxTouched == 1

\* A profile file of the configure runs has at most this many lines.
MaxLines == 2

\* At most this many trailing arguments where the argument lists vary.
MaxArgs == 2

(* ----------------------------- constants ------------------------------- *)

\* find_project_root's "return None".
NotFound == -1

\* The modification time of a path that does not exist (not path.exists()).
Absent == -1

Depths == 0..MaxDepth
Times == 0..MaxTime

BUILD_DIR == "build"
DEBUG_SUBDIR == "debug"
RELEASE_SUBDIR == "release"
ASAN_SUBDIR == "debug_asan"
TSAN_SUBDIR == "debug_tsan"
PROFILES_DIR == <<".fargo", "profiles">>
DEFAULT_PROFILE == "default"
SRC_DIR == "src"
TEST_DIR == "test"
BENCH_DIR == "bench"
CMAKELISTS_FILE == [name |-> "CMakeLists", ext |-> "txt"]

Subdirs == {DEBUG_SUBDIR, RELEASE_SUBDIR, ASAN_SUBDIR, TSAN_SUBDIR}

\* What a directory's CMakeLists.txt can be:
\*   "absent"      no such file
\*   "plain"       a readable file without the text 'project('
\*   "named"       a readable file with 'project(' followed by a name
\*   "unnamed"     a readable file with 'project(' not followed by \w+
\*   "unreadable"  the file exists and read_text() raises
DescKinds == {"absent", "plain", "named", "unnamed", "unreadable"}

\* The commands main() dispatches that work inside a project.
BuildCommands == {"build", "release"}
StaleCommands == {"run", "test", "bench"}
SanitizerCommands == {"asan", "tsan"}
ArgCommands == StaleCommands \cup SanitizerCommands
Commands == BuildCommands \cup ArgCommands \cup {"clean", "profile", "targets"}

\* Trailing arguments of the command line (args.args).
ArgChoices == {<< >>, <<"--filter">>}

\* Exit codes of an external process.
ExitCodes == {0, 1, 2}

\* The files of the project tree whose modification times the tool can read:
\* dir is the directory below the project root, name.ext the file name.
ProjectFiles == {
    [dir |-> <<SRC_DIR>>, name |-> "main", ext |-> "cpp"],
    [dir |-> <<SRC_DIR, "core">>, name |-> "util", ext |-> "hpp"],
    [dir |-> <<TEST_DIR>>, name |-> "example_test", ext |-> "cc"],
    [dir |-> <<BENCH_DIR>>, name |-> "example_bench", ext |-> "cxx"],
    [dir |-> << >>, name |-> "CMakeLists", ext |-> "txt"],
    [dir |-> <<SRC_DIR>>, name |-> "notes", ext |-> "txt"] }

\* The binaries the tool looks for: <subdir>/<project-name><suffix>.
Artifacts == {
    [subdir |-> DEBUG_SUBDIR, suffix |-> ""],
    [subdir |-> DEBUG_SUBDIR, suffix |-> "_tests"],
    [subdir |-> RELEASE_SUBDIR, suffix |-> "_bench"],
    [subdir |-> ASAN_SUBDIR, suffix |-> ""],
    [subdir |-> TSAN_SUBDIR, suffix |-> ""] }

ProfileNames == {DEFAULT_PROFILE, "dev"}

\* The positional arguments of "fargo profile": none, an action, or an action
\* and a profile name.
ProfileActions == {"list", "init", "new", "show"}
ProfileArgChoices ==
    {<< >>} \cup {<<a>> : a \in ProfileActions}
            \cup {<<a, n>> : a \in ProfileActions, n \in ProfileNames}

\* The value of other when no second invocation runs.
NoInvocation == << >>

VARIABLES
    shell_dir,      \* depth of the directory the tool is started in
    cwd,            \* depth of the process's working directory
    desc,           \* desc[d]: the CMakeLists.txt of the directory at depth d
    mtime,          \* mtime[f]: modification time of project file f
    art,            \* art[a]: modification time of built binary a, or Absent
    dirs,           \* the directories below the project root that exist
    profiles,       \* profiles[n]: contents of the profile file n.conf that exists
    command,        \* args.command of the running invocation
    current_profile, \* the global current_profile (option -p/--profile)
    interrupt_at,   \* the blocking call during which the user interrupts, or "never"
    other,          \* the invocation running beside this one, while it waits
    args,           \* args.args
    pc,             \* position of the handler
    current,        \* find_project_root's cursor
    root,           \* the located project root, or NotFound
    needs_rebuild,  \* the staleness verdict of cmd_run/cmd_test/cmd_bench
    events,         \* what the invocation did so far, in order
    exit_status,    \* << >> while the invocation runs, then <<its exit status>>
    last_verdict    \* what the staleness check of the invocation before logged

vars == <<shell_dir, cwd, desc, mtime, art, dirs, profiles, command, args, pc,
          current, root, needs_rebuild, events, exit_status, last_verdict,
          current_profile, interrupt_at, other>>

fsVars == <<desc, mtime, art, dirs, profiles>>

(* --------------------------- ProjectLocator ---------------------------- *)

\* Path.parent: the parent of the filesystem root is the root itself.
Parent(d) == IF d = 0 THEN 0 ELSE d - 1

DescAt(d) == IF d \in DOMAIN desc THEN desc[d] ELSE "absent"

\* One pass of the loop body of find_project_root on a directory whose
\* CMakeLists.txt is of kind k: "match" (return current), "next" (go on with
\* the parent) or "raise" (an exception leaves find_project_root).
probe_raising(k) ==
    CASE k \in {"named", "unnamed"} -> "match"
      [] k = "unreadable" -> "raise"
      [] OTHER -> "next"

probe(k) ==
    CASE k = "absent" -> "next"                  \* not cmake_file.exists()
      [] k \in {"named", "unnamed"} -> "match"   \* 'project(' in content
      [] k = "plain" -> "next"
      [] k = "unreadable" -> "next"              \* except Exception: pass

\* The loop condition of find_project_root: while current != current.parent.
loop_condition(c) == c # Parent(c)

\* The last statement of the loop body: current = current.parent.
next_current_same(c) == c

next_current(c) == Parent(c)

\* find_project_root as a function of the starting directory (used where the
\* code calls it again after os.chdir(root)).
RECURSIVE find_project_root_from(_)
find_project_root_from(c) ==
    IF ~loop_condition(c) THEN NotFound
    ELSE IF probe(DescAt(c)) = "match" THEN c
    ELSE find_project_root_from(next_current(c))

\* die(): error message, sys.exit(1).
die ==
    /\ pc' = "Aborted"
    /\ exit_status' = <<1>>

\* One iteration of find_project_root's while loop, or its exit.
find_project_root ==
    /\ pc = "ResolveRoot"
    /\ IF loop_condition(current)
       THEN LET r == probe(DescAt(current)) IN
            CASE r = "match" ->
                    /\ root' = current
                    /\ pc' = "RootResolved"
                    /\ UNCHANGED <<current, exit_status>>
              [] r = "next" ->
                    /\ current' = next_current(current)
                    /\ UNCHANGED <<root, pc, exit_status>>
              [] OTHER ->   \* main(): except Exception -> die
                    /\ die
                    /\ UNCHANGED <<current, root>>
       ELSE /\ root' = NotFound
            /\ pc' = "RootResolved"
            /\ UNCHANGED <<current, exit_status>>
    /\ UNCHANGED <<interrupt_at, other, current_profile, last_verdict, shell_dir, cwd, fsVars, command, args, needs_rebuild, events>>

(* -------------------------- VariantResolver ---------------------------- *)

\* get_build_dir(mode): Path(BUILD_DIR) / mode.
get_build_dir_shared(mode) == <<BUILD_DIR>>

get_build_dir(mode) == <<BUILD_DIR, mode>>

\* The mode (subdirectory) each command hands to get_build_dir.
mode_of(cmd) ==
    CASE cmd \in {"build", "run", "test", "targets"} -> DEBUG_SUBDIR
      [] cmd \in {"release", "bench"} -> RELEASE_SUBDIR
      [] cmd = "asan" -> ASAN_SUBDIR
      [] cmd = "tsan" -> TSAN_SUBDIR
      [] OTHER -> DEBUG_SUBDIR

\* The binary a command checks and runs: outdir / f"{project_name}{suffix}".
artifact_of(cmd) ==
    [subdir |-> mode_of(cmd),
     suffix |-> CASE cmd = "test" -> "_tests"
                  [] cmd = "bench" -> "_bench"
                  [] OTHER -> ""]

\* Path.exists() of a binary and of a build directory.
artifact_exists(a) == a \in DOMAIN art /\ art[a] # Absent
dir_exists(d) == d \in dirs

(* ------------------------- StalenessDetector --------------------------- *)

Extensions == <<"cpp", "cxx", "cc", "h", "hpp", "hxx">>

\* f"{top}/**/*.cpp", ... f"{top}/**/*.hxx"
tree_patterns(top) ==
    [i \in 1..Len(Extensions) |-> [top |-> top, name |-> "*", ext |-> Extensions[i]]]

\* The literal pattern CMAKELISTS_FILE.
descriptor_pattern ==
    [top |-> "", name |-> CMAKELISTS_FILE.name, ext |-> CMAKELISTS_FILE.ext]

\* source_patterns of cmd_run and cmd_test, and of cmd_bench.
source_patterns_all_trees(cmd) ==
    tree_patterns(SRC_DIR) \o tree_patterns(TEST_DIR) \o tree_patterns(BENCH_DIR)
        \o <<descriptor_pattern>>

source_patterns(cmd) ==
    tree_patterns(SRC_DIR)
        \o tree_patterns(IF cmd = "bench" THEN BENCH_DIR ELSE TEST_DIR)
        \o <<descriptor_pattern>>

\* glob.glob(pattern, recursive=True) in the project root: "top/**/*.ext"
\* matches the files with that extension in top and in every directory below
\* it; a pattern without wildcard matches the file of that name in the root.
glob(p) ==
    IF p.name = "*"
    THEN {f \in ProjectFiles : Len(f.dir) >= 1 /\ f.dir[1] = p.top /\ f.ext = p.ext}
    ELSE {f \in ProjectFiles : f.dir = << >> /\ f.name = p.name /\ f.ext = p.ext}

\* Path(source_file).stat().st_mtime > binary_mtime
newer_or_equal(file_mtime, binary_mtime) == file_mtime >= binary_mtime

newer(file_mtime, binary_mtime) == file_mtime > binary_mtime

\* The two nested for loops with their breaks, from pattern i on: TRUE when
\* some matched file is newer than the binary.
scan_one_pattern(patterns, i, binary_mtime) ==
    /\ i <= Len(patterns)
    /\ \E f \in glob(patterns[i]) : newer(mtime[f], binary_mtime)

RECURSIVE scan(_, _, _)
scan(patterns, i, binary_mtime) ==
    IF i > Len(patterns) THEN FALSE
    ELSE IF \E f \in glob(patterns[i]) : newer(mtime[f], binary_mtime) THEN TRUE
    ELSE scan(patterns, i + 1, binary_mtime)

\* needs_rebuild as cmd_run, cmd_test and cmd_bench compute it.
is_stale_timestamps_only(cmd) ==
    /\ artifact_exists(artifact_of(cmd))
    /\ scan(source_patterns(cmd), 1, art[artifact_of(cmd)])

is_stale_or_other_profile(cmd) ==
    IF ~dir_exists(get_build_dir(mode_of(cmd))) THEN TRUE
    ELSE IF ~artifact_exists(artifact_of(cmd)) THEN TRUE
    ELSE IF current_profile # DEFAULT_PROFILE THEN TRUE
    ELSE scan(source_patterns(cmd), 1, art[artifact_of(cmd)])

is_stale(cmd) ==
    IF ~dir_exists(get_build_dir(mode_of(cmd))) THEN TRUE
    ELSE IF ~artifact_exists(artifact_of(cmd)) THEN TRUE
    ELSE scan(source_patterns(cmd), 1, art[artifact_of(cmd)])

\* Which of its three messages the check logs ("No ... build found", "Binary
\* not found", "Source file ... is newer"), or "fresh" when it logs none.
logged_reason(cmd) ==
    IF ~dir_exists(get_build_dir(mode_of(cmd))) THEN "no_build"
    ELSE IF ~artifact_exists(artifact_of(cmd)) THEN "no_binary"
    ELSE IF scan(source_patterns(cmd), 1, art[artifact_of(cmd)]) THEN "newer"
    ELSE "fresh"


(* ------------------------ ProfileStore: reading ------------------------ *)

\* A profile file is the sequence of its lines.  A text (a value, a comment)
\* is the sequence of its whitespace-separated words; blank lines are left
\* out.  A line is a comment ("#..."), a directive ("KEY=words") or anything
\* else, which configparser cannot parse.
Comment(words) == [kind |-> "comment", key |-> "", value |-> words]
Directive(key, words) == [kind |-> "directive", key |-> key, value |-> words]
Malformed(words) == [kind |-> "malformed", key |-> "", value |-> words]

\* The text create_default_profile writes.
default_config == <<
    Comment(<<"Default", "fargo", "profile", "configuration">>),
    Comment(<<"Override", "these", "values", "in", "custom", "profiles">>),
    Comment(<<"Build", "configuration">>),
    Directive("CMAKE_GENERATOR", <<"Ninja">>),
    Directive("CMAKE_CXX_STANDARD", <<"20">>),
    Directive("CMAKE_BUILD_TYPE_DEBUG", <<"Debug">>),
    Directive("CMAKE_BUILD_TYPE_RELEASE", <<"Release">>),
    Comment(<<"Compiler", "flags">>),
    Directive("CXX_FLAGS_DEBUG", <<"-Wall", "-Wextra", "-g">>),
    Directive("CXX_FLAGS_RELEASE", <<"-O3", "-DNDEBUG">>),
    Comment(<<"Additional", "CMake", "options">>),
    Directive("CMAKE_EXTRA_OPTIONS", << >>),
    Comment(<<"Test", "configuration">>),
    Directive("TEST_PARALLEL_JOBS", <<"auto">>),
    Directive("TEST_OUTPUT_ON_FAILURE", <<"ON">>),
    Comment(<<"Benchmark", "configuration">>),
    Directive("BENCH_MIN_TIME", <<"1">>),
    Directive("BENCH_REPETITIONS", <<"3">>),
    Comment(<<"Documentation">>),
    Directive("DOC_EXTRACT_ALL", <<"YES">>),
    Directive("DOC_GENERATE_CALL_GRAPH", <<"YES">>),
    Comment(<<"Static", "analysis">>),
    Directive("STATIC_ANALYSIS_SEVERITY", <<"warning">>) >>

\* A profile file as a user left it.
edited_config == <<
    Directive("CMAKE_GENERATOR", <<"Unix", "Makefiles">>),
    Directive("CMAKE_CXX_STANDARD", <<"17">>) >>

profile_exists(n) == n \in DOMAIN profiles

\* ConfigParser.optionxform: the key in lower case.
optionxform(key) ==
    CASE key = "CMAKE_GENERATOR" -> "cmake_generator"
      [] key = "CMAKE_CXX_STANDARD" -> "cmake_cxx_standard"
      [] key = "CMAKE_BUILD_TYPE_DEBUG" -> "cmake_build_type_debug"
      [] key = "CMAKE_BUILD_TYPE_RELEASE" -> "cmake_build_type_release"
      [] key = "CXX_FLAGS_DEBUG" -> "cxx_flags_debug"
      [] key = "CXX_FLAGS_RELEASE" -> "cxx_flags_release"
      [] key = "CMAKE_EXTRA_OPTIONS" -> "cmake_extra_options"
      [] key = "TEST_PARALLEL_JOBS" -> "test_parallel_jobs"
      [] key = "TEST_OUTPUT_ON_FAILURE" -> "test_output_on_failure"
      [] key = "BENCH_MIN_TIME" -> "bench_min_time"
      [] key = "BENCH_REPETITIONS" -> "bench_repetitions"
      [] key = "DOC_EXTRACT_ALL" -> "doc_extract_all"
      [] key = "DOC_GENERATE_CALL_GRAPH" -> "doc_generate_call_graph"
      [] key = "STATIC_ANALYSIS_SEVERITY" -> "static_analysis_severity"
      [] OTHER -> key

\* The mapping without any key: load_profile's "return {}".
no_options == [k \in {} |-> << >>]

\* config.read_string("[DEFAULT]\n" + text) and dict(config['DEFAULT']), from
\* line i on with the options read so far: a line that is no directive and no
\* comment raises ParsingError, a key read before raises
\* DuplicateOptionError; neither is caught in load_profile.
RECURSIVE read_string(_, _, _)
read_string(lines, i, options) ==
    IF i > Len(lines) THEN [raised |-> FALSE, options |-> options]
    ELSE CASE lines[i].kind = "comment" -> read_string(lines, i + 1, options)
           [] lines[i].kind = "malformed" ->
                [raised |-> TRUE, options |-> no_options]
           [] OTHER ->
                IF optionxform(lines[i].key) \in DOMAIN options
                THEN [raised |-> TRUE, options |-> no_options]
                ELSE read_string(lines, i + 1,
                        options @@ (optionxform(lines[i].key) :> lines[i].value))

\* load_profile(profile_name) in directory d: whether it raises, whether it
\* warns, and the mapping it returns.
load_profile(d, profile_name) ==
    IF find_project_root_from(d) = NotFound
    THEN [raised |-> FALSE, warned |-> FALSE, options |-> no_options]
    ELSE IF profile_exists(profile_name)
    THEN [raised |-> read_string(profiles[profile_name], 1, no_options).raised,
          warned |-> FALSE,
          options |-> read_string(profiles[profile_name], 1, no_options).options]
    ELSE [raised |-> FALSE,
          warned |-> profile_name # DEFAULT_PROFILE,
          options |-> no_options]

\* dict.get(key, default); a missing value (None) is the empty text.
get(options, key, default) ==
    IF key \in DOMAIN options THEN options[key] ELSE default

(* -------------------------- BuildOrchestrator -------------------------- *)

\* One entry of events: op names what was done, rc is the exit code of the
\* external process (0 where there is none), argv its trailing arguments.
\* cwd is the directory the process is started in when the call names one.
EvIn(op, rc, argv, dir) == [op |-> op, rc |-> rc, argv |-> argv, cwd |-> dir]

Ev(op, rc, argv) == EvIn(op, rc, argv, << >>)

\* The outcome of a blocking call that the user interrupts: subprocess.run
\* raises KeyboardInterrupt instead of returning an exit code.
Interrupted == -2

\* The outcomes of the blocking call named call in this invocation.
Outcomes(call) == IF interrupt_at = call THEN {Interrupted} ELSE ExitCodes

\* log("Interrupted by user"), if the call was interrupted.
log_interrupted(rc) ==
    IF rc = Interrupted THEN <<Ev("log", 0, <<"Interrupted by user">>)>> ELSE << >>

\* main(): except KeyboardInterrupt: log(...); sys.exit(1).
keyboard_interrupt_in_main ==
    /\ pc' = "Aborted"
    /\ exit_status' = <<1>>

ConsumerOps == {"ctest", "binary"}

Ops(evs) == {evs[i].op : i \in 1..Len(evs)}

\* The handler returns and main() falls off its end: exit status 0.
done ==
    /\ pc' = "Done"
    /\ exit_status' = <<0>>

\* Where each handler goes after its first ensure_project_root/os.chdir.
first_step_checking(cmd) ==
    CASE cmd \in StaleCommands \cup BuildCommands -> "GetName"
      [] cmd \in SanitizerCommands -> "Configure"
      [] cmd = "clean" -> "Clean"
      [] cmd = "profile" -> "Profile"
      [] OTHER -> "Targets"

first_step(cmd) ==
    CASE cmd \in StaleCommands -> "GetName"
      [] cmd \in BuildCommands \cup SanitizerCommands -> "Configure"
      [] cmd = "clean" -> "Clean"
      [] cmd = "profile" -> "Profile"
      [] OTHER -> "Targets"

\* Where cmd_run/cmd_test/cmd_bench and cmd_asan/cmd_tsan go after
\* get_project_name.
after_name_unchecked(cmd) == "VerifyArtifact"

after_name(cmd) ==
    IF cmd \in StaleCommands THEN "CheckStaleness" ELSE "VerifyArtifact"

\* Where the caller of cmd_build_like goes when it returns.
after_build(cmd) ==
    CASE cmd \in BuildCommands -> "Done"
      [] cmd \in StaleCommands -> "VerifyArtifact"
      [] OTHER -> "GetName"

\* ensure_project_root, then os.chdir(root), at the head of every handler.
ensure_project_root_fallback ==
    /\ pc = "RootResolved"
    /\ cwd' = IF root = NotFound THEN cwd ELSE root
    /\ pc' = first_step(command)
    /\ UNCHANGED <<interrupt_at, other, current_profile, last_verdict, shell_dir, fsVars, command, args, current, root,
                   needs_rebuild, events, exit_status>>

ensure_project_root ==
    /\ pc = "RootResolved"
    /\ IF root = NotFound
       THEN die /\ UNCHANGED cwd
       ELSE /\ cwd' = root
            /\ pc' = first_step(command)
            /\ UNCHANGED exit_status
    /\ UNCHANGED <<interrupt_at, other, current_profile, last_verdict, shell_dir, fsVars, command, args, current, root,
                   needs_rebuild, events>>

\* re.search(r'project\(\s*(\w+)', content) finds a name.
name_extractable_any(k) == k \in {"named", "unnamed"}

name_extractable(k) == k = "named"

\* get_project_name(root) in cmd_run, cmd_test, cmd_bench, cmd_asan, cmd_tsan.
get_project_name ==
    /\ pc = "GetName"
    /\ IF name_extractable(DescAt(root))
       THEN pc' = after_name(command) /\ UNCHANGED exit_status
       ELSE die
    /\ UNCHANGED <<interrupt_at, other, current_profile, last_verdict, shell_dir, cwd, fsVars, command, args, current, root,
                   needs_rebuild, events>>

\* The staleness check of cmd_run, cmd_test and cmd_bench.
check_staleness ==
    /\ pc = "CheckStaleness"
    /\ needs_rebuild' = is_stale(command)
    /\ events' = Append(events, Ev("check", 0, <<logged_reason(command)>>))
    /\ pc' = IF needs_rebuild' THEN "Configure" ELSE "VerifyArtifact"
    /\ UNCHANGED <<interrupt_at, other, current_profile, last_verdict, shell_dir, cwd, fsVars, command, args, current, root,
                   exit_status>>

\* run_command(..., check=True) raises CalledProcessError.
called_process_error_never(rc) == FALSE

called_process_error(rc) == rc # 0

\* The sanitizer argument each command hands to cmd_build_like ("" is None).
sanitizer_of(cmd) ==
    CASE cmd = "asan" -> "asan"
      [] cmd = "tsan" -> "tsan"
      [] OTHER -> ""

\* build_type in cmd_build_like.
build_type_by_mode(mode, sanitizer) ==
    IF mode = DEBUG_SUBDIR THEN "Debug" ELSE "Release"

build_type(mode, sanitizer) ==
    IF sanitizer # "" THEN "Debug"
    ELSE IF mode = DEBUG_SUBDIR THEN "Debug" ELSE "Release"

\* One argument of the cmake command line: an option and the words of its
\* value ("-G" <<"Unix", "Makefiles">>, "-DCMAKE_BUILD_TYPE" <<"Debug">>).
Arg(opt, val) == [opt |-> opt, val |-> val]

\* "Determine generator": generator_args.
generator_args(preferred_generator, ninja_found) ==
    IF preferred_generator = <<"Ninja">> /\ ninja_found
    THEN <<Arg("-G", <<"Ninja">>)>>
    ELSE IF preferred_generator = <<"Make">> \/ ~ninja_found
    THEN << >>
    ELSE <<Arg("-G", preferred_generator)>>

\* The text appended to cxx_flags for a sanitizer, which is also the value
\* of -DCMAKE_EXE_LINKER_FLAGS.
sanitizer_flag(sanitizer) ==
    CASE sanitizer = "asan" -> <<"-fsanitize=address">>
      [] sanitizer = "tsan" -> <<"-fsanitize=thread">>
      [] OTHER -> << >>

\* cxx_flags as configure_build accumulates it.
RECURSIVE without_repeats(_)
without_repeats(words) ==
    IF words = << >> THEN << >>
    ELSE LET front == without_repeats(SubSeq(words, 1, Len(words) - 1))
             last == words[Len(words)]
         IN  IF \E i \in 1..Len(front) : front[i] = last
             THEN front ELSE Append(front, last)

cxx_flags_without_repeats(bt, sanitizer, profile) ==
    without_repeats(
        (CASE bt = "Debug" -> get(profile, "cxx_flags_debug", << >>)
           [] bt = "Release" -> get(profile, "cxx_flags_release", << >>)
           [] OTHER -> << >>)
        \o sanitizer_flag(sanitizer))

cxx_flags(bt, sanitizer, profile) ==
    (CASE bt = "Debug" -> get(profile, "cxx_flags_debug", << >>)
       [] bt = "Release" -> get(profile, "cxx_flags_release", << >>)
       [] OTHER -> << >>)
    \o sanitizer_flag(sanitizer)

\* cmake_cmd as configure_build builds it, after "cmake".
cmake_cmd(bt, outdir, sanitizer, profile, ninja_found) ==
    <<Arg("-S", <<".">>), Arg("-B", outdir), Arg("-DCMAKE_BUILD_TYPE", <<bt>>)>>
    \o generator_args(get(profile, "cmake_generator", <<"Ninja">>), ninja_found)
    \o (IF get(profile, "cmake_cxx_standard", << >>) # << >>
        THEN <<Arg("-DCMAKE_CXX_STANDARD", get(profile, "cmake_cxx_standard", << >>))>>
        ELSE << >>)
    \o (IF sanitizer \in {"asan", "tsan"}
        THEN <<Arg("-DCMAKE_EXE_LINKER_FLAGS", sanitizer_flag(sanitizer))>>
        ELSE << >>)
    \o (IF cxx_flags(bt, sanitizer, profile) # << >>
        THEN <<Arg("-DCMAKE_CXX_FLAGS", cxx_flags(bt, sanitizer, profile))>>
        ELSE << >>)
    \o [i \in 1..Len(get(profile, "cmake_extra_options", << >>)) |->
            Arg(get(profile, "cmake_extra_options", << >>)[i], << >>)]

\* cmd_build_like up to and including configure_build.
configure_build ==
    /\ pc = "Configure"
    /\ \E cmake_found \in BOOLEAN, ninja_found \in BOOLEAN, rc \in Outcomes("configure") :
        LET mode == mode_of(command)
            sanitizer == sanitizer_of(command)
            outdir == get_build_dir(mode)
            loaded == load_profile(cwd, current_profile)
        IN
        IF \/ find_project_root_from(cwd) = NotFound   \* ensure_project_root
           \/ ~cmake_found                             \* need_cmd("cmake")
        THEN /\ die
             /\ UNCHANGED <<dirs, events>>
        ELSE IF loaded.raised                          \* main(): except Exception
        THEN /\ die
             /\ events' = Append(events, Ev("load_profile", 0, <<current_profile>>))
             /\ UNCHANGED dirs
        ELSE /\ dirs' = dirs \cup {<<BUILD_DIR>>, outdir}
             /\ events' = events
                    \o <<Ev("load_profile", 0, <<current_profile>>)>>
                    \o (IF loaded.warned
                        THEN <<Ev("warn", 0, <<current_profile>>)>> ELSE << >>)
                    \o <<Ev("mkdir", 0, << >>),
                         Ev("cmake_configure", rc,
                            cmake_cmd(build_type(mode, sanitizer), outdir, sanitizer,
                                      loaded.options, ninja_found))>>
                    \o log_interrupted(rc)
             /\ IF rc = Interrupted
                THEN keyboard_interrupt_in_main
                ELSE IF called_process_error(rc)
                THEN die
                ELSE pc' = "Compile" /\ UNCHANGED exit_status
    /\ UNCHANGED <<interrupt_at, other, current_profile, last_verdict, shell_dir, cwd, desc, mtime, art, profiles, command, args,
                   current, root, needs_rebuild>>

\* The binaries a build in get_build_dir(mode) can write.
artifacts_in_any_variant(mode) == Artifacts

artifacts_in(mode) == {a \in Artifacts : a.subdir = mode}

\* The rest of cmd_build_like: cmake --build.  The build tool rewrites any of
\* the binaries of its directory, also when it ends with an error.
cmd_build_like ==
    /\ pc = "Compile"
    /\ \E rc \in Outcomes("compile"), S \in SUBSET artifacts_in(mode_of(command)),
          t \in Times :
        /\ events' = Append(events, Ev("cmake_build", rc, << >>)) \o log_interrupted(rc)
        /\ art' = [a \in DOMAIN art |-> IF a \in S THEN t ELSE art[a]]
        /\ IF rc = Interrupted
           THEN keyboard_interrupt_in_main
           ELSE IF called_process_error(rc)
           THEN die
           ELSE IF after_build(command) = "Done"
                THEN done
                ELSE pc' = after_build(command) /\ UNCHANGED exit_status
    /\ UNCHANGED <<interrupt_at, other, current_profile, last_verdict, shell_dir, cwd, desc, mtime, dirs, profiles, command, args,
                   current, root, needs_rebuild>>

\* "Verify binary exists after potential rebuild".
verify_artifact_unchecked ==
    /\ pc = "VerifyArtifact"
    /\ pc' = "InvokeConsumer"
    /\ UNCHANGED <<interrupt_at, other, current_profile, last_verdict, shell_dir, cwd, fsVars, command, args,
                   current, root, needs_rebuild, events, exit_status>>

verify_artifact ==
    /\ pc = "VerifyArtifact"
    /\ IF artifact_exists(artifact_of(command))
       THEN pc' = "InvokeConsumer" /\ UNCHANGED exit_status
       ELSE die
    /\ UNCHANGED <<interrupt_at, other, current_profile, last_verdict, shell_dir, cwd, fsVars, command, args, current, root,
                   needs_rebuild, events>>

\* Whether the consumer's exit code rc ends the invocation with die(): only
\* ctest runs with check=True; the binaries run with check=False.
consumer_fatal_always(cmd, argv, rc) == rc # 0

consumer_fatal(cmd, argv, rc) ==
    cmd = "test" /\ argv = << >> /\ called_process_error(rc)

\* "If no arguments provided, use CTest": only cmd_test has this branch.
uses_ctest(cmd, argv) == cmd = "test" /\ argv = << >>

\* run_cmd, test_cmd, bench_cmd: [str(binary_path)] + (args.args or []).
run_cmd_without_repeats(binary, argv) == <<binary>> \o without_repeats(argv)

run_cmd(binary, argv) == <<binary>> \o argv

\* The tail of cmd_run, cmd_test, cmd_bench, cmd_asan and cmd_tsan.  ctest
\* runs through run_command, where no KeyboardInterrupt is caught before
\* main; the binaries run inside try/except KeyboardInterrupt, which logs
\* and lets the handler return.
invoke_consumer ==
    /\ pc = "InvokeConsumer"
    /\ \E rc \in Outcomes("consumer") :
        /\ events' = Append(events,
                IF uses_ctest(command, args)
                THEN EvIn("ctest", rc, <<"--output-on-failure">>,
                          get_build_dir(mode_of(command)))
                ELSE Ev("binary", rc, run_cmd(artifact_of(command), args)))
              \o log_interrupted(rc)
        /\ IF rc = Interrupted
           THEN IF uses_ctest(command, args) THEN keyboard_interrupt_in_main ELSE done
           ELSE IF consumer_fatal(command, args, rc) THEN die ELSE done
    /\ UNCHANGED <<interrupt_at, other, current_profile, last_verdict, shell_dir, cwd, fsVars, command, args, current, root,
                   needs_rebuild>>


\* cmd_clean after ensure_project_root: shutil.rmtree(BUILD_DIR).
cmd_clean_below_root ==
    /\ pc = "Clean"
    /\ IF dir_exists(<<BUILD_DIR>>)
       THEN /\ dirs' = {d \in dirs : d[1] # BUILD_DIR \/ d = <<BUILD_DIR>>}
            /\ art' = [a \in DOMAIN art |-> Absent]
            /\ events' = Append(events, Ev("rmtree", 0, << >>))
       ELSE UNCHANGED <<dirs, art, events>>
    /\ done
    /\ UNCHANGED <<interrupt_at, other, current_profile, last_verdict, shell_dir, cwd, desc, mtime, profiles, command, args,
                   current, root, needs_rebuild>>

cmd_clean ==
    /\ pc = "Clean"
    /\ IF dir_exists(<<BUILD_DIR>>)
       THEN /\ dirs' = {d \in dirs : d[1] # BUILD_DIR}
            /\ art' = [a \in DOMAIN art |-> Absent]
            /\ events' = Append(events, Ev("rmtree", 0, << >>))
       ELSE UNCHANGED <<dirs, art, events>>
    /\ done
    /\ UNCHANGED <<interrupt_at, other, current_profile, last_verdict, shell_dir, cwd, desc, mtime, profiles, command, args,
                   current, root, needs_rebuild>>

(* ----------------------------- ProfileStore ---------------------------- *)

\* The two positional arguments of "fargo profile": args.action or "list",
\* and args.profile_name ("" when it is not given).
profile_action(argv) == IF Len(argv) >= 1 THEN argv[1] ELSE "list"
profile_name_of(argv) == IF Len(argv) >= 2 THEN argv[2] ELSE ""

\* The profile files after create_default_profile(profiles_dir): write_text
\* replaces default.conf whether or not it exists.
create_default_profile(files) ==
    (DEFAULT_PROFILE :> default_config) @@ files

\* The line "profile new" puts before the copied text.
custom_header(profile_name) == Comment(<<"Custom", "profile:", profile_name>>)

\* What "profile new" writes to the new file, given the text of default.conf.
new_profile_content_plain(profile_name, content) == content

new_profile_content(profile_name, content) ==
    <<custom_header(profile_name)>> \o content

\* cmd_profile after ensure_project_root.
cmd_profile ==
    /\ pc = "Profile"
    /\ LET action == profile_action(args)
           profile_name == profile_name_of(args)
       IN
        CASE action \in {"list", "ls"} ->
                /\ done
                /\ UNCHANGED <<dirs, profiles, events>>
          [] action = "init" ->
                /\ dirs' = dirs \cup {PROFILES_DIR}
                /\ profiles' = create_default_profile(profiles)
                /\ events' = events \o <<Ev("mkdir", 0, << >>),
                                         Ev("write_profile", 0, <<DEFAULT_PROFILE>>)>>
                /\ done
          [] action \in {"new", "create"} ->
                IF profile_name = "" \/ profile_exists(profile_name)
                THEN /\ die
                     /\ UNCHANGED <<dirs, profiles, events>>
                ELSE LET made == ~profile_exists(DEFAULT_PROFILE)
                         files == IF made THEN create_default_profile(profiles)
                                  ELSE profiles
                     IN  /\ dirs' = dirs \cup {PROFILES_DIR}
                         /\ profiles' =
                                (profile_name :>
                                    new_profile_content(profile_name,
                                                        files[DEFAULT_PROFILE]))
                                @@ files
                         /\ events' = events
                                \o <<Ev("mkdir", 0, << >>)>>
                                \o (IF made
                                    THEN <<Ev("write_profile", 0, <<DEFAULT_PROFILE>>)>>
                                    ELSE << >>)
                                \o <<Ev("write_profile", 0, <<profile_name>>)>>
                         /\ done
          [] OTHER ->                \* show
                /\ IF profile_exists(IF profile_name = "" THEN DEFAULT_PROFILE
                                     ELSE profile_name)
                   THEN done
                   ELSE die
                /\ UNCHANGED <<dirs, profiles, events>>
    /\ UNCHANGED <<interrupt_at, other, current_profile, last_verdict, shell_dir, cwd, desc, mtime, art, command, args, current,
                   root, needs_rebuild>>

\* cmd_targets after ensure_project_root: lists targets with ninja or make
\* when the debug directory exists, else names them from the project name.
cmd_targets ==
    /\ pc = "Targets"
    /\ IF dir_exists(get_build_dir(DEBUG_SUBDIR))
       THEN done
       ELSE IF name_extractable(DescAt(root)) THEN done ELSE die
    /\ UNCHANGED <<interrupt_at, other, current_profile, last_verdict, shell_dir, cwd, fsVars, command, args, current, root,
                   needs_rebuild, events>>

(* ------------------------- one invocation of main ---------------------- *)

\* The modification times: at most MaxTouched files are not at time 0.
Touched(m) == {f \in ProjectFiles : m[f] # 0}

MtimeChoices ==
    {m \in [ProjectFiles -> Times] : Cardinality(Touched(m)) <= MaxTouched}

\* The project directory is at depth 1 when there is one; the tool is started
\* in it or below it.  The files a command never reads are left at rest: only
\* run, test and bench read modification times, and each command looks for
\* one binary.
Init ==
    /\ shell_dir \in 1..MaxDepth
    /\ cwd = shell_dir
    /\ \E k \in {"absent", "named", "unnamed"} :
            desc = [d \in Depths |-> IF d = 1 THEN k ELSE "absent"]
    /\ command \in Commands
    /\ args \in (CASE command \in ArgCommands -> ArgChoices
                    [] command = "profile" -> ProfileArgChoices
                    [] OTHER -> {<< >>})
    /\ current_profile = DEFAULT_PROFILE
    /\ interrupt_at = "never"
    /\ other = NoInvocation
    /\ mtime \in (IF command \in StaleCommands THEN MtimeChoices
                  ELSE {[f \in ProjectFiles |-> 0]})
    /\ \E t \in Times \cup {Absent} :
            art = [a \in Artifacts |-> IF a = artifact_of(command) THEN t ELSE Absent]
    /\ \E p \in {{}, {DEFAULT_PROFILE}, ProfileNames} :
            /\ command # "profile" => p = {DEFAULT_PROFILE}
            /\ profiles = [n \in p |-> edited_config]
            /\ \E b \in SUBSET {<<BUILD_DIR>>, get_build_dir(mode_of(command))} :
                /\ get_build_dir(mode_of(command)) \in b => <<BUILD_DIR>> \in b
                /\ artifact_exists(artifact_of(command))
                        => get_build_dir(mode_of(command)) \in b
                /\ dirs = b \cup (IF p = {} THEN {} ELSE {PROFILES_DIR})
    /\ pc = "ResolveRoot"
    /\ current = cwd
    /\ root = NotFound
    /\ needs_rebuild = FALSE
    /\ events = << >>
    /\ exit_status = << >>
    /\ last_verdict = "first"

Next ==
    \/ find_project_root
    \/ ensure_project_root
    \/ get_project_name
    \/ check_staleness
    \/ configure_build
    \/ cmd_build_like
    \/ verify_artifact
    \/ invoke_consumer
    \/ cmd_clean
    \/ cmd_profile
    \/ cmd_targets

Spec == Init /\ [][Next]_vars

(* --------- the same run, test or bench command, given again ------------ *)

\* The check event of this invocation, if the invocation got that far.
CheckEvents == {i \in 1..Len(events) : events[i].op = "check"}

\* The user gives the same command line again, in the same directory, once
\* the invocation has ended; no project file is touched in between.
main_again ==
    /\ pc \in {"Done", "Aborted"}
    /\ last_verdict' = IF CheckEvents = {} THEN "none"
                       ELSE events[CHOOSE i \in CheckEvents : TRUE].argv[1]
    /\ cwd' = shell_dir
    /\ current' = shell_dir
    /\ root' = NotFound
    /\ pc' = "ResolveRoot"
    /\ needs_rebuild' = FALSE
    /\ events' = << >>
    /\ exit_status' = << >>
    /\ UNCHANGED <<shell_dir, fsVars, command, args, current_profile, interrupt_at,
                   other>>

InitRepeat == Init /\ command \in StaleCommands

NextRepeat ==
    \/ find_project_root
    \/ ensure_project_root
    \/ get_project_name
    \/ check_staleness
    \/ configure_build
    \/ cmd_build_like
    \/ verify_artifact
    \/ invoke_consumer
    \/ main_again

SpecRepeat == InitRepeat /\ [][NextRepeat]_vars


(* ---- the locator alone, from every directory of every directory chain --- *)

NoFiles == [f \in {} |-> 0]

InitLocate ==
    /\ shell_dir \in Depths
    /\ cwd = shell_dir
    /\ desc \in [Depths -> DescKinds]
    /\ mtime = NoFiles
    /\ art = NoFiles
    /\ dirs = {}
    /\ profiles = NoFiles
    /\ command = "locate"
    /\ current_profile = DEFAULT_PROFILE
    /\ interrupt_at = "never"
    /\ other = NoInvocation
    /\ args = << >>
    /\ pc = "ResolveRoot"
    /\ current = cwd
    /\ root = NotFound
    /\ needs_rebuild = FALSE
    /\ events = << >>
    /\ exit_status = << >>
    /\ last_verdict = "first"

NextLocate == find_project_root

SpecLocate == InitLocate /\ [][NextLocate]_vars

\* The loop of find_project_root is a sequential program: it keeps running.
FairLocate == SpecLocate /\ WF_vars(NextLocate)

(* ---- configure alone, under every profile file of up to MaxLines lines ---- *)

\* The lines a profile file is made of in these runs: directives for the
\* keys configure_build reads, a comment, and a line that is neither.
ProfileLines == {
    Directive("CMAKE_GENERATOR", <<"Ninja">>),
    Directive("CMAKE_GENERATOR", <<"Unix", "Makefiles">>),
    Directive("CMAKE_CXX_STANDARD", <<"17">>),
    Directive("CXX_FLAGS_DEBUG", <<"-g", "-Wall", "-g">>),
    Directive("CXX_FLAGS_RELEASE", <<"-O2">>),
    Comment(<<"my", "settings">>),
    Malformed(<<"use", "clang">>) }

ProfileContents == UNION {[1..n -> ProfileLines] : n \in 0..MaxLines}

\* build, release, asan or tsan, started in a project or below it with the
\* option -p naming any profile; the file of that profile is missing or holds
\* any of ProfileContents.
InitConfigure ==
    /\ shell_dir \in 1..MaxDepth
    /\ cwd = shell_dir
    /\ desc = [d \in Depths |-> IF d = 1 THEN "named" ELSE "absent"]
    /\ command \in BuildCommands \cup SanitizerCommands
    /\ args = << >>
    /\ current_profile \in ProfileNames
    /\ interrupt_at = "never"
    /\ other = NoInvocation
    /\ mtime = [f \in ProjectFiles |-> 0]
    /\ art = [a \in Artifacts |-> Absent]
    /\ \/ profiles = NoFiles /\ dirs = {}
       \/ /\ \E c \in ProfileContents : profiles = (current_profile :> c)
          /\ dirs = {PROFILES_DIR}
    /\ pc = "ResolveRoot"
    /\ current = cwd
    /\ root = NotFound
    /\ needs_rebuild = FALSE
    /\ events = << >>
    /\ exit_status = << >>
    /\ last_verdict = "first"

NextConfigure ==
    \/ find_project_root
    \/ ensure_project_root
    \/ configure_build

SpecConfigure == InitConfigure /\ [][NextConfigure]_vars

(* ---- the external calls: interrupts, argument lists, profile files ------ *)

\* The trailing arguments a user gives: any list of up to MaxArgs words.
ArgWords == {"--filter", "x"}
TrailingArgs == UNION {[1..n -> ArgWords] : n \in 0..MaxArgs}

\* The blocking external calls of an invocation.
BlockingCalls == {"configure", "compile", "consumer"}

\* A building or consuming command in a project whose binary is missing or
\* up to date, with any trailing arguments, any selected profile, a profile
\* directory that is missing, edited or unparsable, and a user who interrupts
\* one of the blocking calls or none.
InitCalls ==
    /\ shell_dir \in 1..MaxDepth
    /\ cwd = shell_dir
    /\ desc = [d \in Depths |-> IF d = 1 THEN "named" ELSE "absent"]
    /\ command \in BuildCommands \cup ArgCommands
    /\ args \in (IF command \in ArgCommands THEN TrailingArgs ELSE {<< >>})
    /\ current_profile \in ProfileNames
    /\ interrupt_at \in BlockingCalls \cup {"never"}
    /\ other = NoInvocation
    /\ mtime = [f \in ProjectFiles |-> 0]
    /\ \E built \in BOOLEAN, files \in {NoFiles,
                                        (DEFAULT_PROFILE :> edited_config),
                                        (DEFAULT_PROFILE :> <<Malformed(<<"use", "clang">>)>>)} :
          /\ art = [a \in Artifacts |->
                        IF built /\ a = artifact_of(command) THEN 0 ELSE Absent]
          /\ profiles = files
          /\ dirs = (IF built THEN {<<BUILD_DIR>>, get_build_dir(mode_of(command))}
                     ELSE {})
                    \cup (IF files = NoFiles THEN {} ELSE {PROFILES_DIR})
    /\ pc = "ResolveRoot"
    /\ current = cwd
    /\ root = NotFound
    /\ needs_rebuild = FALSE
    /\ events = << >>
    /\ exit_status = << >>
    /\ last_verdict = "first"

NextCalls ==
    \/ find_project_root
    \/ ensure_project_root
    \/ get_project_name
    \/ check_staleness
    \/ configure_build
    \/ cmd_build_like
    \/ verify_artifact
    \/ invoke_consumer

SpecCalls == InitCalls /\ [][NextCalls]_vars

(* ------------- two invocations at once in one project ------------------ *)

\* What is private to a process: its arguments, its working directory and
\* the locals of main and of the handler it runs.
context ==
    [command |-> command, args |-> args, pc |-> pc, cwd |-> cwd,
     current |-> current, root |-> root, needs_rebuild |-> needs_rebuild,
     events |-> events, exit_status |-> exit_status]

\* The commands that work in a variant directory.
VariantCommands == BuildCommands \cup SanitizerCommands \cup {"run", "bench"}

\* The scheduler takes the running process off and puts the other one on;
\* the files stay as they are.
switch ==
    /\ other # NoInvocation
    /\ other[1].pc \notin {"Done", "Aborted"}
    /\ other' = <<context>>
    /\ command' = other[1].command
    /\ args' = other[1].args
    /\ pc' = other[1].pc
    /\ cwd' = other[1].cwd
    /\ current' = other[1].current
    /\ root' = other[1].root
    /\ needs_rebuild' = other[1].needs_rebuild
    /\ events' = other[1].events
    /\ exit_status' = other[1].exit_status
    /\ UNCHANGED <<interrupt_at, current_profile, last_verdict, shell_dir, fsVars>>

\* Two invocations for different variants are started in a project that has
\* not been built; the second has not taken a step yet.
InitConcurrent ==
    /\ shell_dir = 1
    /\ cwd = shell_dir
    /\ desc = [d \in Depths |-> IF d = 1 THEN "named" ELSE "absent"]
    /\ \E first \in VariantCommands, second \in VariantCommands :
          /\ mode_of(first) # mode_of(second)
          /\ command = first
          /\ other = <<[command |-> second, args |-> << >>, pc |-> "ResolveRoot",
                        cwd |-> shell_dir, current |-> shell_dir,
                        root |-> NotFound, needs_rebuild |-> FALSE,
                        events |-> << >>, exit_status |-> << >>]>>
    /\ args = << >>
    /\ current_profile = DEFAULT_PROFILE
    /\ interrupt_at = "never"
    /\ mtime = [f \in ProjectFiles |-> 0]
    /\ art = [a \in Artifacts |-> Absent]
    /\ profiles = (DEFAULT_PROFILE :> edited_config)
    /\ dirs = {PROFILES_DIR}
    /\ pc = "ResolveRoot"
    /\ current = cwd
    /\ root = NotFound
    /\ needs_rebuild = FALSE
    /\ events = << >>
    /\ exit_status = << >>
    /\ last_verdict = "first"

NextConcurrent ==
    \/ switch
    \/ find_project_root
    \/ ensure_project_root
    \/ get_project_name
    \/ check_staleness
    \/ configure_build
    \/ cmd_build_like
    \/ verify_artifact
    \/ invoke_consumer

SpecConcurrent == InitConcurrent /\ [][NextConcurrent]_vars

(* ============================ properties =============================== *)

\* The positions in events of the build collaborator and of the consumers.
ConfigureAt == {i \in 1..Len(events) : events[i].op = "cmake_configure"}
CompileAt == {i \in 1..Len(events) : events[i].op = "cmake_build"}
ConsumerAt == {i \in 1..Len(events) : events[i].op \in ConsumerOps}

\* The files the patterns of a command's staleness check match.
InputFiles(cmd) ==
    UNION {glob(source_patterns(cmd)[i]) : i \in 1..Len(source_patterns(cmd))}

\* The binary of the command exists and some input file is strictly newer.
Outdated(cmd) ==
    /\ dir_exists(get_build_dir(mode_of(cmd)))
    /\ artifact_exists(artifact_of(cmd))
    /\ \E f \in InputFiles(cmd) : mtime[f] > art[artifact_of(cmd)]

\* The binary of the command exists and no input file is strictly newer.
UpToDate(cmd) ==
    /\ dir_exists(get_build_dir(mode_of(cmd)))
    /\ artifact_exists(artifact_of(cmd))
    /\ \A f \in InputFiles(cmd) : mtime[f] <= art[artifact_of(cmd)]

\* A check made while the binary or its build directory is missing gives the
\* verdict stale and goes on to configure.
C1_MissingStep ==
    (/\ pc = "CheckStaleness"
     /\ \/ ~dir_exists(get_build_dir(mode_of(command)))
        \/ ~artifact_exists(artifact_of(command)))
    => (needs_rebuild' /\ pc' = "Configure")

\* After a stale verdict a consumer runs only after configure and compile.
C1_BuildBeforeConsumer ==
    (command \in StaleCommands /\ needs_rebuild)
    => \A j \in ConsumerAt :
          \E i \in ConfigureAt, k \in CompileAt : i < k /\ k < j

\* C1: in run, test and bench, a check made while the binary or its build
\* directory is missing gives the verdict stale and goes on to configure,
\* whatever the modification times are; and after a stale verdict every
\* consumer invocation comes after a configure and a compile invocation.
C1_MissingArtifactIsStale ==
    [][C1_MissingStep]_vars /\ []C1_BuildBeforeConsumer

\* C1 witness: a consumer ran after a rebuild that no timestamp asked for
\* (no file is newer than time 0, so the verdict came from a missing path).
C1_Witness ==
    /\ command \in StaleCommands
    /\ pc = "Done"
    /\ needs_rebuild
    /\ ConsumerAt # {}
    /\ \A f \in ProjectFiles : mtime[f] = 0

\* A check made while the binary exists and no matched input file is
\* strictly newer gives the verdict fresh and goes on to the consumer.
C2_FreshStep ==
    (pc = "CheckStaleness" /\ UpToDate(command))
    => (~needs_rebuild' /\ pc' = "VerifyArtifact")

\* An invocation whose verdict is fresh has not configured or compiled.
C2_NoBuildWhenFresh ==
    (command \in StaleCommands /\ "check" \in Ops(events) /\ ~needs_rebuild)
    => (ConfigureAt = {} /\ CompileAt = {})

\* C2: in run, test and bench, a check made while the binary exists and no
\* matched input file is strictly newer than it (equal times included) gives
\* the verdict fresh, and an invocation with the verdict fresh never invokes
\* configure or compile.
C2_FreshSkipsBuild ==
    [][C2_FreshStep]_vars /\ []C2_NoBuildWhenFresh

\* C2 witness: the consumer ran without a build although an input file has
\* exactly the binary's modification time, later than time 0.
C2_Witness ==
    /\ command \in StaleCommands
    /\ pc = "Done"
    /\ ConsumerAt # {}
    /\ ConfigureAt = {}
    /\ \E f \in InputFiles(command) :
          mtime[f] = art[artifact_of(command)] /\ mtime[f] > 0

\* A check made while the binary exists and an input file is strictly newer
\* gives the verdict stale and changes nothing on disk.
C3_OutdatedStep ==
    (pc = "CheckStaleness" /\ Outdated(command))
    => (needs_rebuild' /\ mtime' = mtime /\ art' = art /\ dirs' = dirs)

\* C3: whenever the staleness check is made, in a first or in a repeated
\* invocation, while the binary exists and an input file is strictly newer,
\* the verdict is stale, and the check leaves every modification time as it
\* was (so the next check without a touch or a rebuild finds the same).
C3_StaleUntilRebuilt == [][C3_OutdatedStep]_vars

\* C3 witness: the check of a repeated invocation has just found the binary
\* older than an input file, as the check of the invocation before did.
C3_Witness ==
    /\ last_verdict = "newer"
    /\ pc = "Configure"
    /\ needs_rebuild
    /\ Outdated(command)
    /\ \E i \in CheckEvents : events[i].argv = <<"newer">>

\* C4: a configure or compile invocation that returns non-zero is the last
\* thing the invocation does: it ends aborted with exit status 1, with no
\* second build invocation and no consumer invocation after it; and no
\* invocation configures or compiles twice.
C4_BuildFailureIsFatal ==
    /\ \A i \in ConfigureAt \cup CompileAt :
          events[i].rc # 0
          => (i = Len(events) /\ pc = "Aborted" /\ exit_status = <<1>>)
    /\ Cardinality(ConfigureAt) <= 1
    /\ Cardinality(CompileAt) <= 1

\* C4 witness: a run, test or bench invocation whose compile step failed.
C4_Witness ==
    /\ command \in StaleCommands
    /\ pc = "Aborted"
    /\ \E i \in CompileAt : events[i].rc # 0


\* C5: in the test action a non-zero exit code of the test consumer always
\* ends the invocation aborted with exit status 1, with trailing arguments
\* as well as without.
C5_TestFailureIsFatal ==
    (command = "test" /\ \E i \in ConsumerAt : events[i].rc # 0)
    => (pc = "Aborted" /\ exit_status = <<1>>)

\* C6 as claimed: in run and bench the invocation does not abort on a
\* consumer's exit code, and its exit status is that exit code.
C6_ExitCodeRelayed ==
    command \in {"run", "bench"}
    => \A i \in ConsumerAt : pc # "Aborted" /\ exit_status = <<events[i].rc>>

\* C6 as amended: in run and bench the invocation does not abort on a
\* consumer's exit code; the code is dropped and the exit status is 0.
C6_ExitCodeDropped ==
    command \in {"run", "bench"}
    => \A i \in ConsumerAt : pc = "Done" /\ exit_status = <<0>>

\* C6 witness: a run or bench invocation that ended after its binary
\* returned a non-zero exit code.
C6_Witness ==
    /\ command \in {"run", "bench"}
    /\ pc = "Done"
    /\ \E i \in ConsumerAt : events[i].rc # 0

\* C7: an invocation of any project command that locates no project root
\* goes from the lookup straight to the abort with exit status 1: it makes
\* no staleness check, runs no external process and writes nothing.
C7_NoRootAborts ==
    (pc # "ResolveRoot" /\ root = NotFound)
    => /\ pc \in {"RootResolved", "Aborted"}
       /\ pc = "Aborted" => exit_status = <<1>>
       /\ events = << >>
       /\ cwd = shell_dir

\* C7 witness: clean, started outside any project next to a build directory
\* it would have removed, has aborted.
C7_Witness ==
    /\ command = "clean"
    /\ root = NotFound
    /\ pc = "Aborted"
    /\ exit_status = <<1>>
    /\ dir_exists(<<BUILD_DIR>>)

(* -------------------- properties of the locator ------------------------ *)

\* A descriptor that can be read and holds a project declaration.
Declares(k) == k \in {"named", "unnamed"}

\* The deepest of the given directories whose descriptor declares a project.
Nearest(ds) ==
    IF \E d \in ds : Declares(desc[d])
    THEN CHOOSE d \in ds : Declares(desc[d])
                           /\ \A e \in ds : Declares(desc[e]) => e <= d
    ELSE NotFound

\* C8: the lookup returns the nearest directory, among the start directory
\* and all its ancestors up to and including the filesystem root, whose
\* descriptor declares a project.
C8_NearestAncestor ==
    pc = "RootResolved" => root = Nearest(0..shell_dir)

\* C9: the lookup ends, and it ends with NotFound when neither the start
\* directory nor any ancestor declares a project; it never ends in an abort.
C9_LocateTerminates ==
    /\ <>(pc = "RootResolved")
    /\ [](pc # "Aborted")
    /\ []((pc = "RootResolved" /\ Nearest(0..shell_dir) = NotFound)
             => root = NotFound)

\* C9 witness: the walk from the deepest directory went all the way up and
\* ended with NotFound.
C9_Witness ==
    /\ pc = "RootResolved"
    /\ root = NotFound
    /\ shell_dir = MaxDepth
    /\ current = 0

\* C10: a descriptor that cannot be read never aborts the lookup; the lookup
\* ends as it would if that file did not declare a project, with the nearest
\* directory below the filesystem root whose descriptor does.
C10_ReadFailureIsNoMatch ==
    /\ pc # "Aborted"
    /\ exit_status = << >>
    /\ pc = "RootResolved" => root = Nearest(1..shell_dir)

\* C10 witness: the lookup passed an unreadable descriptor and returned a
\* directory further up.
C10_Witness ==
    /\ pc = "RootResolved"
    /\ root # NotFound
    /\ \E u \in Depths : root < u /\ u <= shell_dir /\ desc[u] = "unreadable"

(* ------------------- properties of the profile store ------------------- *)

\* The values the configure command line gives option opt.
ArgVals(argv, opt) == {argv[j].val : j \in {k \in 1..Len(argv) : argv[k].opt = opt}}

\* The lines of the file of the selected profile (none when it is missing).
CurrentLines == IF profile_exists(current_profile) THEN profiles[current_profile]
                ELSE << >>

\* The lines of a file that set the key which configure_build reads as key.
SetsKey(lines, key) ==
    {i \in 1..Len(lines) : lines[i].kind = "directive"
                           /\ optionxform(lines[i].key) = key}

\* The compiled-in defaults: the values of the text create_default_profile
\* holds, the only place where the source states them.
Defaults == [k \in {optionxform(default_config[i].key) :
                        i \in {j \in 1..Len(default_config) :
                                 default_config[j].kind = "directive"}} |->
                default_config[CHOOSE i \in SetsKey(default_config, k) : TRUE].value]

\* The value of key after the merge of the file over the defaults.
Merged(lines, key) ==
    IF SetsKey(lines, key) = {} THEN Defaults[key]
    ELSE lines[CHOOSE i \in SetsKey(lines, key) : TRUE].value

\* The key of the base flags of a build-type label.
FlagsKey(label) == IF label = <<"Debug">> THEN "cxx_flags_debug" ELSE "cxx_flags_release"

IsPrefix(p, q) == Len(p) <= Len(q) /\ SubSeq(q, 1, Len(p)) = p

\* C11: every configure invocation uses the merge of the profile file over
\* the compiled-in defaults: the language standard and the base flags of its
\* build type are the file's value where the file sets the key and the
\* default value (20, -Wall -Wextra -g, -O3 -DNDEBUG) where it does not or
\* where there is no file, and a generator it names is the merged one.
C11_ProfileMerge ==
    \A i \in ConfigureAt :
        LET argv == events[i].argv IN
        /\ ArgVals(argv, "-DCMAKE_CXX_STANDARD")
                = {Merged(CurrentLines, "cmake_cxx_standard")}
        /\ \A label \in ArgVals(argv, "-DCMAKE_BUILD_TYPE") :
              \E flags \in ArgVals(argv, "-DCMAKE_CXX_FLAGS") :
                  IsPrefix(Merged(CurrentLines, FlagsKey(label)), flags)
        /\ ArgVals(argv, "-G") \subseteq {Merged(CurrentLines, "cmake_generator")}

\* The warnings of the invocation.
WarnAt == {i \in 1..Len(events) : events[i].op = "warn"}

\* C12: when the selected profile has no file, loading it never aborts the
\* action, the values configure uses are the compiled-in defaults, and the
\* invocation warns exactly once for a named profile and not at all for the
\* default profile.
C12_MissingProfileGivesDefaults ==
    ~profile_exists(current_profile) =>
        /\ pc = "Configure" => ~load_profile(cwd, current_profile).raised
        /\ \A i \in ConfigureAt :
              LET argv == events[i].argv IN
              /\ Cardinality(WarnAt)
                    = (IF current_profile = DEFAULT_PROFILE THEN 0 ELSE 1)
              /\ ArgVals(argv, "-DCMAKE_CXX_STANDARD") = {Defaults["cmake_cxx_standard"]}
              /\ \A label \in ArgVals(argv, "-DCMAKE_BUILD_TYPE") :
                    \E flags \in ArgVals(argv, "-DCMAKE_CXX_FLAGS") :
                        IsPrefix(Defaults[FlagsKey(label)], flags)
              /\ ArgVals(argv, "-G") \subseteq {Defaults["cmake_generator"]}

\* The keys the directive lines of a file set, each with the value of the
\* first line that sets it (a line that repeats a key is skipped).
WellFormedValues(lines) ==
    [k \in {optionxform(lines[i].key) :
                i \in {j \in 1..Len(lines) : lines[j].kind = "directive"}} |->
        lines[CHOOSE i \in SetsKey(lines, k) :
                \A j \in SetsKey(lines, k) : i <= j].value]

\* C13: loading a profile file never aborts the action, whatever its lines
\* are: a line that is no directive and no comment, or that repeats a key,
\* is skipped, and load returns the values of the other lines.
C13_MalformedLineSkipped ==
    (pc = "Configure" /\ profile_exists(current_profile)) =>
        /\ ~load_profile(cwd, current_profile).raised
        /\ load_profile(cwd, current_profile).options = WellFormedValues(CurrentLines)

\* One "profile init": an existing default profile file stays as it is, a
\* missing one is created from the compiled-in defaults.
C14_InitStep ==
    (pc = "Profile" /\ profile_action(args) = "init") =>
        IF profile_exists(DEFAULT_PROFILE)
        THEN profiles' = profiles
        ELSE profiles' = (DEFAULT_PROFILE :> default_config) @@ profiles

\* C14: "profile init" leaves an existing default profile file as it is,
\* creates it from the compiled-in defaults when it is missing, and changes
\* no other profile file (so a second init changes nothing).
C14_InitIsNonDestructive == [][C14_InitStep]_vars

\* The text of the default profile once "profile new" has materialized it.
DefaultText == IF profile_exists(DEFAULT_PROFILE) THEN profiles[DEFAULT_PROFILE]
               ELSE default_config

\* What "profile new <name>" does to the default profile and to the files of
\* the other names: a missing default profile is created from the compiled-in
\* defaults, everything else stays.
NewKeepsOthers ==
    /\ DOMAIN profiles' = DOMAIN profiles \cup {DEFAULT_PROFILE, profile_name_of(args)}
    /\ \A n \in DOMAIN profiles' \ {profile_name_of(args)} :
          profiles'[n] = IF n \in DOMAIN profiles THEN profiles[n] ELSE default_config

\* The first half of C15: "profile new <name>" for a name that has a file
\* ends aborted with exit status 1 and changes no profile file.
NewOfExistingFails ==
    /\ pc' = "Aborted"
    /\ exit_status' = <<1>>
    /\ profiles' = profiles

\* One "profile new <name>" whose new file is a copy of the default text.
C15_CopyStep ==
    (pc = "Profile" /\ profile_action(args) = "new" /\ profile_name_of(args) # "") =>
        IF profile_exists(profile_name_of(args))
        THEN NewOfExistingFails
        ELSE /\ NewKeepsOthers
             /\ profiles'[profile_name_of(args)] = DefaultText

\* C15 as claimed: "profile new <name>" fails with exit status 1 and changes
\* no profile file when the name has a file; otherwise it creates a missing
\* default profile from the compiled-in defaults and writes a new file that
\* holds a copy of the default profile's text.
C15_NewCopiesDefault == [][C15_CopyStep]_vars

\* One "profile new <name>" whose new file is the header line and then a
\* copy of the default text.
C15_HeaderStep ==
    (pc = "Profile" /\ profile_action(args) = "new" /\ profile_name_of(args) # "") =>
        IF profile_exists(profile_name_of(args))
        THEN NewOfExistingFails
        ELSE /\ NewKeepsOthers
             /\ pc' = "Done"
             /\ Len(profiles'[profile_name_of(args)]) = Len(DefaultText) + 1
             /\ profiles'[profile_name_of(args)][1].kind = "comment"
             /\ profiles'[profile_name_of(args)][1].value
                    = <<"Custom", "profile:", profile_name_of(args)>>
             /\ SubSeq(profiles'[profile_name_of(args)], 2, Len(DefaultText) + 1)
                    = DefaultText

\* C15 as amended: as claimed, but the new file holds one comment line that
\* names the profile ("# Custom profile: <name>"), followed by a copy of the
\* default profile's text.
C15_NewCopiesDefaultUnderHeader == [][C15_HeaderStep]_vars

\* C15 witness: "profile new dev" in a project without any profile has
\* written the default profile and, under its header line, dev.
C15_Witness ==
    /\ command = "profile"
    /\ args = <<"new", "dev">>
    /\ pc = "Done"
    /\ profiles[DEFAULT_PROFILE] = default_config
    /\ profiles["dev"] = <<Comment(<<"Custom", "profile:", "dev">>)>> \o default_config
    /\ Len(events) = 3

(* ------------------ properties of the variant resolver ----------------- *)

\* Directory p is an ancestor of directory q.
IsParent(p, q) == Len(p) < Len(q) /\ SubSeq(q, 1, Len(p)) = p

\* C16: the output directories of two distinct variants (debug, release,
\* debug_asan, debug_tsan) differ and neither is an ancestor of the other;
\* and an invocation creates no directory and no binary of a variant other
\* than its own.
C16_VariantDirsDisjoint ==
    /\ \A m1 \in Subdirs, m2 \in Subdirs :
          m1 # m2 => /\ get_build_dir(m1) # get_build_dir(m2)
                     /\ ~IsParent(get_build_dir(m1), get_build_dir(m2))
    /\ \A m \in Subdirs \ {mode_of(command)} :
          /\ ~dir_exists(get_build_dir(m))
          /\ \A a \in artifacts_in(m) : ~artifact_exists(a)

\* C16 witness: a tsan invocation has built and run in build/debug_tsan, and
\* build/debug, whose name is a prefix of that name, does not exist.
C16_Witness ==
    /\ command = "tsan"
    /\ pc = "Done"
    /\ CompileAt # {}
    /\ dir_exists(<<"build", "debug_tsan">>)
    /\ ~dir_exists(<<"build", "debug">>)

\* The build-type label and the output directory of each variant's command.
VariantLabel(cmd) == IF cmd = "release" THEN "Release" ELSE "Debug"
VariantDir(cmd) ==
    CASE cmd = "build" -> <<"build", "debug">>
      [] cmd = "release" -> <<"build", "release">>
      [] cmd = "asan" -> <<"build", "debug_asan">>
      [] cmd = "tsan" -> <<"build", "debug_tsan">>

\* C17: every configure invocation of build, release, asan and tsan is given
\* the build-type label of its variant (Release for release, Debug for the
\* other three) and the output directory build/<the variant's subdirectory>,
\* which exists by then.
C17_VariantMapping ==
    \A i \in ConfigureAt :
        /\ ArgVals(events[i].argv, "-DCMAKE_BUILD_TYPE") = {<<VariantLabel(command)>>}
        /\ ArgVals(events[i].argv, "-B") = {VariantDir(command)}
        /\ dir_exists(VariantDir(command))

\* C17 witness: asan has configured build/debug_asan with the label Debug.
C17_Witness ==
    /\ command = "asan"
    /\ pc = "Compile"
    /\ \E i \in ConfigureAt :
          /\ ArgVals(events[i].argv, "-DCMAKE_BUILD_TYPE") = {<<"Debug">>}
          /\ ArgVals(events[i].argv, "-B") = {<<"build", "debug_asan">>}

\* C18: the generator given to configure is the one the profile requests
\* (Ninja when it requests none); only a request for Ninja may go without
\* a generator argument (ninja missing on the host: cmake's default
\* generator), a request for another generator is always passed on.
C18_RequestedGeneratorIsUsed ==
    \A i \in ConfigureAt :
        LET requested == IF SetsKey(CurrentLines, "cmake_generator") = {}
                         THEN <<"Ninja">>
                         ELSE CurrentLines[CHOOSE j \in
                                SetsKey(CurrentLines, "cmake_generator") : TRUE].value
        IN  IF requested = <<"Ninja">>
            THEN ArgVals(events[i].argv, "-G") \subseteq {<<"Ninja">>}
            ELSE ArgVals(events[i].argv, "-G") = {requested}

\* The words the variant of a command appends to the flags.
VariantFlag(cmd) ==
    CASE cmd = "asan" -> <<"-fsanitize=address">>
      [] cmd = "tsan" -> <<"-fsanitize=thread">>
      [] OTHER -> << >>

\* The base flags the profile file gives the build type of a command.
BaseFlags(cmd) ==
    LET key == IF VariantLabel(cmd) = "Debug" THEN "cxx_flags_debug"
               ELSE "cxx_flags_release"
    IN  IF SetsKey(CurrentLines, key) = {} THEN << >>
        ELSE CurrentLines[CHOOSE j \in SetsKey(CurrentLines, key) : TRUE].value

\* C19: the compiler flags given to configure are the profile's base flags
\* of the build type, word for word in their order and with their repeats,
\* followed by the variant's sanitizer flag if it has one (no flags option
\* when both are empty); and exactly the sanitizer variants pass the
\* matching linker flag.
C19_FlagsAppendOnly ==
    \A i \in ConfigureAt :
        /\ ArgVals(events[i].argv, "-DCMAKE_CXX_FLAGS")
              = (IF BaseFlags(command) \o VariantFlag(command) = << >> THEN {}
                 ELSE {BaseFlags(command) \o VariantFlag(command)})
        /\ ArgVals(events[i].argv, "-DCMAKE_EXE_LINKER_FLAGS")
              = (IF VariantFlag(command) = << >> THEN {} ELSE {VariantFlag(command)})

\* C19 witness: asan has configured with base flags that repeat a word, and
\* the sanitizer flag after them.
C19_Witness ==
    /\ command = "asan"
    /\ pc = "Compile"
    /\ \E i \in ConfigureAt :
          /\ ArgVals(events[i].argv, "-DCMAKE_CXX_FLAGS")
                = {<<"-g", "-Wall", "-g", "-fsanitize=address">>}
          /\ ArgVals(events[i].argv, "-DCMAKE_EXE_LINKER_FLAGS")
                = {<<"-fsanitize=address">>}

\* A step from the check of the binary while the binary is missing ends the
\* invocation aborted with exit status 1 and invokes nothing.
C20_MissingStep ==
    (pc = "VerifyArtifact" /\ ~artifact_exists(artifact_of(command)))
    => (pc' = "Aborted" /\ exit_status' = <<1>> /\ events' = events)

\* A consumer has run only on a binary that exists.
C20_ConsumerHasArtifact ==
    (command \in ArgCommands /\ ConsumerAt # {})
    => artifact_exists(artifact_of(command))

\* C20: in run, test, bench, asan and tsan, when the binary does not exist
\* after the staleness and build phase (also after a build that returned 0)
\* the invocation ends aborted with exit status 1, and no consumer is ever
\* invoked on a binary that does not exist.
C20_ArtifactMissingIsFatal ==
    [][C20_MissingStep]_vars /\ []C20_ConsumerHasArtifact

\* C20 witness: the build returned 0 without writing the binary, and the
\* invocation aborted before any consumer.
C20_Witness ==
    /\ command \in ArgCommands
    /\ pc = "Aborted"
    /\ exit_status = <<1>>
    /\ \E i \in CompileAt : events[i].rc = 0
    /\ ~artifact_exists(artifact_of(command))
    /\ ConsumerAt = {}

(* -------------------- properties of the external calls ----------------- *)

\* The blocking calls of the invocation so far, and the interrupted ones.
CallAt == ConfigureAt \cup CompileAt \cup ConsumerAt
InterruptedAt == {i \in CallAt : events[i].rc = Interrupted}
LogInterruptedAt == {i \in 1..Len(events) : events[i].op = "log"}

\* C21: an interrupt during any blocking call (configure, compile, the
\* consumer) is logged once and ends the invocation with exit status 1, and
\* nothing the build wrote is removed.
C21_InterruptExitsOne ==
    InterruptedAt # {} =>
        /\ Cardinality(InterruptedAt) = 1
        /\ Cardinality(LogInterruptedAt) = 1
        /\ pc = "Aborted"
        /\ exit_status = <<1>>
        /\ \A i \in ConfigureAt : dir_exists(get_build_dir(mode_of(command)))

\* The variant directory and the binary of each consuming command, written
\* out: <variant dir>/<name>, <name>_tests, <name>_bench.
ExpectedDir(cmd) ==
    CASE cmd \in {"run", "test"} -> <<"build", "debug">>
      [] cmd = "bench" -> <<"build", "release">>
      [] cmd = "asan" -> <<"build", "debug_asan">>
      [] cmd = "tsan" -> <<"build", "debug_tsan">>

ExpectedBinary(cmd) ==
    CASE cmd = "run" -> [subdir |-> "debug", suffix |-> ""]
      [] cmd = "test" -> [subdir |-> "debug", suffix |-> "_tests"]
      [] cmd = "bench" -> [subdir |-> "release", suffix |-> "_bench"]
      [] cmd = "asan" -> [subdir |-> "debug_asan", suffix |-> ""]
      [] cmd = "tsan" -> [subdir |-> "debug_tsan", suffix |-> ""]

\* C22: test without trailing arguments invokes ctest in the variant
\* directory and not the test binary; test with trailing arguments, and run
\* and bench (and the sanitizer runs) always, invoke the artifact itself
\* followed by exactly the user's trailing arguments, in their order.
C22_ConsumerDispatch ==
    \A i \in ConsumerAt :
        IF command = "test" /\ args = << >>
        THEN /\ events[i].op = "ctest"
             /\ events[i].cwd = ExpectedDir(command)
             /\ events[i].argv = <<"--output-on-failure">>
        ELSE /\ events[i].op = "binary"
             /\ Head(events[i].argv) = ExpectedBinary(command)
             /\ Tail(events[i].argv) = args

C22_Witness ==
    /\ command = "test"
    /\ args = <<"x", "x">>
    /\ ConsumerAt # {}
    /\ pc = "Done"

\* The profile loads of the invocation so far.
LoadAt == {i \in 1..Len(events) : events[i].op = "load_profile"}

C24_NoCheckNoBuild ==
    command \in {"clean", "targets", "profile"} =>
        (CheckEvents = {} /\ ConfigureAt = {} /\ CompileAt = {})

\* clean with a build-output root removes it, with every directory and
\* binary in it, whatever their state; without one it changes nothing.
C24_CleanStep ==
    pc = "Clean" =>
        /\ pc' = "Done"
        /\ IF <<"build">> \in dirs
           THEN /\ \A d \in dirs' : d[1] # "build"
                /\ \A a \in Artifacts : art'[a] = Absent
                /\ \A d \in dirs : d[1] # "build" => d \in dirs'
           ELSE dirs' = dirs /\ art' = art
        /\ profiles' = profiles /\ mtime' = mtime /\ desc' = desc

\* C24: the clean, targets and profile actions never perform a staleness
\* check and never invoke configure or compile; clean removes the
\* build-output root whenever it exists, whatever is in it, and nothing else.
C24_CleanIsUnconditional ==
    [][C24_CleanStep]_vars /\ []C24_NoCheckNoBuild

\* C24 witness: clean finished after removing a build-output root, and no
\* binary or build directory is left.
C24_Witness ==
    /\ command = "clean"
    /\ pc = "Done"
    /\ "rmtree" \in Ops(events)
    /\ PROFILES_DIR \in dirs
    /\ \A a \in Artifacts : art[a] = Absent

(* ------------------- properties of two invocations --------------------- *)

\* The paths inside the variant directory of a command, as they are on disk:
\* whether the directory exists and the time of each binary in it.
InsideVariant(cmd, ds, bins) ==
    LET sub == CASE cmd \in {"build", "run"} -> "debug"
                 [] cmd \in {"release", "bench"} -> "release"
                 [] cmd = "asan" -> "debug_asan"
                 [] cmd = "tsan" -> "debug_tsan"
    IN  [dir |-> <<"build", sub>> \in ds,
         files |-> [a \in {b \in Artifacts : b.subdir = sub} |-> bins[a]]]

\* A step leaves the variant directory of the invocation that is not
\* running, and every binary in it, as it was.
C25_Step ==
    other # NoInvocation =>
        InsideVariant(other[1].command, dirs', art')
            = InsideVariant(other[1].command, dirs, art)

\* C25: while two invocations for different variants run at once in one
\* project, in any interleaving of their steps, no step of the running one
\* creates, writes or deletes the other one's variant directory or a binary
\* in it.
C25_OtherVariantUntouched == [][C25_Step]_vars

\* C25 witness: both invocations have configured and compiled and are done,
\* and a binary of each of the two variants is on disk.
C25_Witness ==
    /\ other # NoInvocation
    /\ other[1].pc = "Done"
    /\ pc = "Done"
    /\ "cmake_build" \in Ops(other[1].events)
    /\ "cmake_build" \in Ops(events)
    /\ \E a \in Artifacts : a.subdir = mode_of(other[1].command) /\ art[a] # Absent
    /\ \E a \in Artifacts : a.subdir = mode_of(command) /\ art[a] # Absent

\* C26: once an invocation of a building or consuming command has completed
\* in a project, the default profile file default.conf exists in the
\* project's profile directory.
C26_DefaultProfileAfterFirstUse ==
    pc = "Done" => (PROFILES_DIR \in dirs /\ profile_exists(DEFAULT_PROFILE))

(* ---------------- properties of the per-action input sets -------------- *)

\* A source or header file in a top-level tree or below it, and the project
\* descriptor in the project root.
UnderTree(f, top) ==
    /\ f.dir # << >>
    /\ Head(f.dir) = top
    /\ f.ext \in {"cpp", "cxx", "cc", "h", "hpp", "hxx"}

IsDescriptor(f) == f.dir = << >> /\ f.name = "CMakeLists" /\ f.ext = "txt"

\* The files each action compares its binary with.
ComparedWith(cmd) ==
    {f \in ProjectFiles :
        \/ UnderTree(f, "src")
        \/ cmd \in {"run", "test"} /\ UnderTree(f, "test")
        \/ cmd = "bench" /\ UnderTree(f, "bench")
        \/ IsDescriptor(f)}

\* With the binary in place, the verdict is stale exactly when a file of the
\* action's own input set is newer than the binary.
C27_Step ==
    (/\ pc = "CheckStaleness"
     /\ dir_exists(get_build_dir(mode_of(command)))
     /\ artifact_exists(artifact_of(command)))
    => (needs_rebuild'
            <=> \E f \in ComparedWith(command) :
                    mtime[f] > art[artifact_of(command)])

\* C27: run and test compare the binary with the files under the source tree
\* and the test tree and with the project descriptor, bench with the files
\* under the source tree and the benchmark tree and with the descriptor; so
\* a newer file under the benchmark tree alone never makes run or test
\* rebuild, one under the test tree alone never makes bench rebuild, and a
\* newer descriptor makes all three rebuild.
C27_InputsPerAction == [][C27_Step]_vars

\* C27 witness: run or test consumed the binary without a rebuild while a
\* file under the benchmark tree is newer than it.
C27_Witness ==
    /\ command \in {"run", "test"}
    /\ pc = "Done"
    /\ ConfigureAt = {} /\ CompileAt = {}
    /\ ConsumerAt # {}
    /\ \E f \in ProjectFiles :
          UnderTree(f, "bench") /\ mtime[f] > art[artifact_of(command)]

(* ------------------ properties of the building actions ----------------- *)

\* build, release, asan and tsan go from the located root straight to
\* configure, whatever the state of the binary.
C28_RootStep ==
    (/\ pc = "RootResolved"
     /\ root # NotFound
     /\ command \in {"build", "release", "asan", "tsan"})
    => pc' = "Configure"

\* They never check staleness; a compile comes only after a configure that
\* returned 0; and one that went past the build did both.
C28_ConfigureThenCompile ==
    command \in {"build", "release", "asan", "tsan"} =>
        /\ CheckEvents = {}
        /\ \A k \in CompileAt :
              \E i \in ConfigureAt : i < k /\ events[i].rc = 0
        /\ pc \in {"Done", "GetName", "VerifyArtifact", "InvokeConsumer"}
              => (ConfigureAt # {} /\ CompileAt # {})

\* C28: build, release, asan and tsan perform no staleness check: every such
\* invocation that locates a project root goes on to configure and then
\* compile, also when the variant's binary exists and is at least as new as
\* every input; and compile is invoked only after configure returned 0.
C28_AlwaysConfigureAndCompile ==
    [][C28_RootStep]_vars /\ []C28_ConfigureThenCompile

\* C28 witness: build or release has configured, and is about to compile,
\* while the binary is there and newer than every file of the project.
C28_Witness ==
    /\ command \in BuildCommands
    /\ pc = "Compile"
    /\ \E i \in ConfigureAt : events[i].rc = 0
    /\ art[artifact_of(command)] = MaxTime
    /\ \A f \in ProjectFiles : mtime[f] < MaxTime

(* --------------- properties of profiles and staleness ------------------ *)

\* The verdict of the check is a function of the build directory, the binary
\* and the modification times of the action's input files, and of nothing
\* else; the check leaves the profile files and the selection as they are.
C29_Step ==
    pc = "CheckStaleness" =>
        /\ needs_rebuild'
              <=> ~(/\ dir_exists(get_build_dir(mode_of(command)))
                    /\ artifact_exists(artifact_of(command))
                    /\ \A f \in ComparedWith(command) :
                          mtime[f] <= art[artifact_of(command)])
        /\ profiles' = profiles
        /\ current_profile' = current_profile

\* After the verdict fresh no profile is loaded and nothing is configured
\* or compiled, and the consumer is given the binary that was there.
C29_FreshLoadsNoProfile ==
    (command \in StaleCommands /\ CheckEvents # {} /\ ~needs_rebuild)
    => /\ LoadAt = {} /\ ConfigureAt = {} /\ CompileAt = {}
       /\ artifact_exists(artifact_of(command))
       /\ pc = "Done" => ConsumerAt # {}

\* C29: profile files and the selected profile name are not staleness
\* inputs: with the binary in place and no source, test, bench or descriptor
\* input newer, run, test and bench are fresh whatever the profile file holds
\* and whichever profile -p selects; then no rebuild occurs, no profile is
\* loaded and the existing binary is consumed.
C29_ProfileIsNoStalenessInput ==
    [][C29_Step]_vars /\ []C29_FreshLoadsNoProfile

\* C29 witness: a run, test or bench with -p dev, in a project whose only
\* profile file is an unparsable default.conf, consumed the binary that was
\* there and never loaded a profile.
C29_Witness ==
    /\ command \in StaleCommands
    /\ pc = "Done"
    /\ current_profile = "dev"
    /\ profile_exists(DEFAULT_PROFILE)
    /\ profiles[DEFAULT_PROFILE] # edited_config
    /\ ConsumerAt # {}
    /\ LoadAt = {}

(* ------------- properties of root location and project name ------------ *)

\* The project directory holds a descriptor with the text project( and no
\* name after it.
UnnamedProject == \E d \in Depths : d >= 1 /\ d <= shell_dir /\ desc[d] = "unnamed"

\* Such a directory is accepted as the root, and run, test and bench end
\* there, with exit status 1, before any check, build or consumer.
C30_UnnamedRootAborts ==
    (command \in {"run", "test", "bench"} /\ UnnamedProject)
    => /\ pc # "ResolveRoot" => (root # NotFound /\ desc[root] = "unnamed")
       /\ events = << >>
       /\ pc \in {"ResolveRoot", "RootResolved", "GetName", "Aborted"}
       /\ pc = "Aborted" => (root # NotFound /\ exit_status = <<1>>)

\* With a name extracted, the binary looked for and run is <variant
\* dir>/<name>, <name>_tests or <name>_bench.
C30_VerifyStep ==
    (pc = "VerifyArtifact" /\ command \in {"run", "test", "bench"})
    => /\ desc[root] = "named"
       /\ pc' = "InvokeConsumer" <=> art[ExpectedBinary(command)] # Absent
       /\ pc' # "InvokeConsumer" => (pc' = "Aborted" /\ exit_status' = <<1>>)

\* C30: root location and name extraction use different predicates: a
\* descriptor that contains project( but no name after it is accepted as the
\* project root, and then run, test and bench abort with exit status 1 at
\* name extraction, before any staleness check, build or consumer
\* invocation; and whenever name extraction succeeds the binary is looked
\* for at <variant dir>/<name>, <name>_tests or <name>_bench for run, test
\* and bench.
C30_RootButNoName ==
    [][C30_VerifyStep]_vars /\ []C30_UnnamedRootAborts

\* C30 witness: run, test or bench found its root at a descriptor without a
\* name and ended at name extraction with exit status 1, nothing invoked.
C30_Witness ==
    /\ command \in {"run", "test", "bench"}
    /\ pc = "Aborted"
    /\ root # NotFound
    /\ desc[root] = "unnamed"
    /\ exit_status = <<1>>
    /\ events = << >>


====
